---- MODULE Spec2Model ----
(***************************************************************************)
(* A model of export_tikz.py / export_script.py: the lexical classifier,   *)
(* the contextual reclassifier, the line segmenter, the wrapping layout    *)
(* engine, the LaTeX escaper, the layout assembler and the batch drivers.  *)
(*                                                                         *)
(* A Python str is a sequence of one-character strings.  Rendered LaTeX is *)
(* a sequence of strings too: the characters produced by _latex_escape     *)
(* and, for the fixed markup of the f-strings, one string per markup piece.*)
(***************************************************************************)
EXTENDS Integers, Sequences, FiniteSets, TLC

VARIABLES
    pc,              \* position of the run (shared by the specifications)
    line_text,       \* build_snippet: the logical source line
    line_no,         \* its 1-based number
    spans,           \* the span sequence handed to the segmenter
    wrap_width,      \* _render_line_wrapped: wrap_width
    segments,        \* _render_line_wrapped: segments still to be placed
    firsts,          \* the `first` part of each split, in order
    physical_lines,  \* _render_line_wrapped: physical_lines
    first_pass,      \* _render_line_wrapped: first_pass
    rendered,        \* the string _render_line_wrapped returned
    n_physical,      \* the count _render_line_wrapped returned
    body_lines,      \* build_snippet: body_lines of this logical line
    esc_text,        \* _latex_escape: the argument
    esc_result,      \* _latex_escape: the value returned
    source_lines,    \* _annotate_function_names: source_lines
    raw_spans,       \* _annotate_function_names: spans
    annotated,       \* its result
    reannotated,     \* its result on `annotated`
    tok_stream,      \* the tokens generate_tokens yields before it ends or fails
    tok_error,       \* how it ends: "none" or the exception it raises
    produced,        \* the tokens list() has drawn from the generator so far
    tokens,          \* tokenize_python: tokens
    tok_i,           \* position of the for loop over tokens
    results,         \* tokenize_python: results
    script,          \* which main() runs
    files,           \* main: files, each by the condition it is in
    file_i,          \* position of the for loop over files
    outcomes,        \* what was reported for each file, in order
    out_before,      \* what each file's output path held when main() began
    out_path         \* what each file's output path holds now

lineVars == <<line_text, line_no, spans, wrap_width>>

wrapVars == <<segments, firsts, physical_lines, first_pass, rendered, n_physical,
              body_lines>>

escapeVars == <<esc_text, esc_result>>

annotateVars == <<source_lines, raw_spans, annotated, reannotated>>

tokVars == <<tok_stream, tok_error, produced, tokens, tok_i, results>>

batchVars == <<script, files, file_i, outcomes, out_before, out_path>>

vars == <<pc, lineVars, wrapVars, escapeVars, annotateVars, tokVars, batchVars>>

-----------------------------------------------------------------------------
(* Bounds of the model *)

MaxLineLen == 3
MaxSpans == 3
MaxWidth == 2

\* columns run to the end of the longest line: a span may end past a shorter one
MaxCol == MaxLineLen

\* physical_lines grows without limit when a pass places nothing; the loop is
\* followed for two passes more than a line of MaxLineLen characters can need
MaxPhysical == MaxLineLen + 2

Alphabet == {"a", " "}

\* the categories of the spans of row 1: one COLORS has, one it has not
SpanKinds == {"keyword", "bogus"}

-----------------------------------------------------------------------------
(* Python str helpers *)

Min(a, b) == IF a < b THEN a ELSE b

\* s[a:b] for 0 <= a, 0 <= b
Slice(s, a, b) == SubSeq(s, a + 1, Min(b, Len(s)))

\* s[a:]
SliceFrom(s, a) == SubSeq(s, a + 1, Len(s))

RECURSIVE Replace(_, _, _)
\* text.replace(ch, repl) for a one-character ch
Replace(text, ch, repl) ==
    IF text = <<>> THEN <<>>
    ELSE (IF Head(text) = ch THEN repl ELSE <<Head(text)>>)
         \o Replace(Tail(text), ch, repl)

RECURSIVE RstripNewline(_)
\* text.rstrip("\n")
RstripNewline(text) ==
    IF text # <<>> /\ text[Len(text)] = "\n"
    THEN RstripNewline(SubSeq(text, 1, Len(text) - 1))
    ELSE text

\* not line.strip(): the line holds whitespace only
IsBlank(text) == \A k \in 1..Len(text) : text[k] \in {" ", "\n", "\t"}

RECURSIVE JoinLines(_)
\* "\n".join(physical_lines)
JoinLines(ls) ==
    IF ls = <<>> THEN <<>>
    ELSE IF Len(ls) = 1 THEN ls[1]
    ELSE ls[1] \o <<"\n">> \o JoinLines(Tail(ls))

RECURSIVE SplitFrom(_, _)
\* rendered.split("\n"), with the piece being read in cur
SplitFrom(text, cur) ==
    IF text = <<>> THEN <<cur>>
    ELSE IF Head(text) = "\n" THEN <<cur>> \o SplitFrom(Tail(text), <<>>)
    ELSE SplitFrom(Tail(text), Append(cur, Head(text)))

SplitLines(text) == SplitFrom(text, <<>>)

-----------------------------------------------------------------------------
(* The style table and the LaTeX helpers *)

\* COLORS without its "function" entry
ColorsWithoutFunction ==
    {"background", "frame_outer", "default", "keyword", "number",
     "string", "comment", "operator", "bracket", "type", "decorator",
     "lineno", "selection", "btn_red", "btn_yellow", "btn_green"}

\* the keys of COLORS
COLORS ==
    {"background", "frame_outer", "default", "keyword", "function", "number",
     "string", "comment", "operator", "bracket", "type", "decorator",
     "lineno", "selection", "btn_red", "btn_yellow", "btn_green"}

\* the replacements of _latex_escape, in the order the code applies them
EscapeTable ==
    <<<<"\\", <<"\\", "t", "e", "x", "t", "b", "a", "c", "k", "s", "l", "a", "s", "h", "{", "}">>>>,
       <<"{", <<"\\", "{">>>>,
       <<"}", <<"\\", "}">>>>,
       <<"$", <<"\\", "$">>>>,
       <<"&", <<"\\", "&">>>>,
       <<"#", <<"\\", "#">>>>,
       <<"^", <<"\\", "^", "{", "}">>>>,
       <<"_", <<"\\", "_">>>>,
       <<"~", <<"\\", "t", "e", "x", "t", "a", "s", "c", "i", "i", "t", "i", "l", "d", "e", "{", "}">>>>,
       <<"%", <<"\\", "%">>>>,
       <<"<", <<"\\", "t", "e", "x", "t", "l", "e", "s", "s", "{", "}">>>>,
       <<">", <<"\\", "t", "e", "x", "t", "g", "r", "e", "a", "t", "e", "r", "{", "}">>>>,
       <<"|", <<"\\", "t", "e", "x", "t", "b", "a", "r", "{", "}">>>>,
       <<" ", <<"\\", " ">>>>>>

RECURSIVE ApplyReplacements(_, _)
ApplyReplacements(text, table) ==
    IF table = <<>> THEN text
    ELSE ApplyReplacements(Replace(text, table[1][1], table[1][2]), Tail(table))

\* one str.replace after the other, each over the whole text so far
_latex_escape(text) == ApplyReplacements(text, EscapeTable)

\* "vsc" + the capitalised parts of the key; no lookup in COLORS, no failure
_color_name(key) ==
    CASE key = "background" -> "vscBackground"
      [] key = "frame_outer" -> "vscFrameOuter"
      [] key = "default" -> "vscDefault"
      [] key = "keyword" -> "vscKeyword"
      [] key = "function" -> "vscFunction"
      [] key = "number" -> "vscNumber"
      [] key = "string" -> "vscString"
      [] key = "comment" -> "vscComment"
      [] key = "operator" -> "vscOperator"
      [] key = "bracket" -> "vscBracket"
      [] key = "type" -> "vscType"
      [] key = "decorator" -> "vscDecorator"
      [] key = "lineno" -> "vscLineno"
      [] key = "selection" -> "vscSelection"
      [] key = "btn_red" -> "vscBtnRed"
      [] key = "btn_yellow" -> "vscBtnYellow"
      [] key = "btn_green" -> "vscBtnGreen"
      [] key = "bogus" -> "vscBogus"

\* \textcolor{<color name>}{<escaped text>}
TextColor(name, escaped) == <<"\\textcolor{", name, "}{">> \o escaped \o <<"}">>

CONT_INDENT == <<" ", " ", " ", " ">>

CONT_MARKER == <<"\\textcolor{", "vscLineno", "}{", "\\textbackslash{}", "}">>

-----------------------------------------------------------------------------
(* Line colouring *)

Seg(text, kind) == [text |-> text, kind |-> kind]

RECURSIVE InsertByScol(_, _)
InsertByScol(sorted, s) ==
    IF sorted = <<>> THEN <<s>>
    ELSE IF s.scol < Head(sorted).scol THEN <<s>> \o sorted
    ELSE <<Head(sorted)>> \o InsertByScol(Tail(sorted), s)

RECURSIVE SortByScol(_)
\* sorted(..., key=lambda s: s[1]); stable
SortByScol(sq) ==
    IF sq = <<>> THEN <<>>
    ELSE InsertByScol(SortByScol(SubSeq(sq, 1, Len(sq) - 1)), sq[Len(sq)])

\* the spans whose start and end row are both line_no
Relevant(sq, n) ==
    SortByScol(SelectSeq(sq, LAMBDA s : s.srow = n /\ s.erow = n))

RECURSIVE ColourWalkNoTrailing(_, _, _)
\* ColourWalk without the filler after the last span
ColourWalkNoTrailing(text, rel, cursor) ==
    IF rel = <<>> THEN <<>>
    ELSE LET s == Head(rel)
         IN  (IF s.scol > cursor
              THEN <<Seg(Slice(text, cursor, s.scol), "default")>>
              ELSE <<>>)
             \o <<Seg(Slice(text, s.scol, s.ecol), s.kind)>>
             \o ColourWalkNoTrailing(text, Tail(rel), s.ecol)

RECURSIVE ColourWalk(_, _, _)
\* the loop of lines 149-153 from `cursor` on, then lines 154-155
ColourWalk(text, rel, cursor) ==
    IF rel = <<>>
    THEN IF cursor < Len(text)
         THEN <<Seg(SliceFrom(text, cursor), "default")>>
         ELSE <<>>
    ELSE LET s == Head(rel)
         IN  (IF s.scol > cursor
              THEN <<Seg(Slice(text, cursor, s.scol), "default")>>
              ELSE <<>>)
             \o <<Seg(Slice(text, s.scol, s.ecol), s.kind)>>
             \o ColourWalk(text, Tail(rel), s.ecol)

_colourise_line(text, n, sq) == ColourWalk(text, Relevant(sq, n), 0)

RECURSIVE SegText(_)
\* the texts of a segment list, concatenated
SegText(segs) ==
    IF segs = <<>> THEN <<>> ELSE Head(segs).text \o SegText(Tail(segs))

-----------------------------------------------------------------------------
(* Line wrapping *)

BreakChars == {" ", ",", "("}

\* acc when the loop of _split_segments_at reaches segments[i] (1-based i)
AccBefore(segs, i) == Len(SegText(SubSeq(segs, 1, i - 1)))

\* the 0-based j of range(len(text) - 1, 0, -1) that pass the test of line 319
BreakPoints(text, acc, max_chars) ==
    {j \in 1..(Len(text) - 1) : text[j + 1] \in BreakChars /\ acc + j <= max_chars}

SetMax(S) == CHOOSE x \in S : \A y \in S : y <= x
SetMin(S) == CHOOSE x \in S : \A y \in S : x <= y

\* _split_segments_at with before = text[:j]: the break character is lost
SplitLosesBreakChar(segs, max_chars) ==
    LET over == {i \in 1..Len(segs) :
                    AccBefore(segs, i) + Len(segs[i].text) > max_chars}
    IN  IF over = {} THEN <<segs, <<>>>>
        ELSE LET i == SetMin(over)
                 text == segs[i].text
                 kind == segs[i].kind
                 js == BreakPoints(text, AccBefore(segs, i), max_chars)
             IN  IF js # {}
                 THEN LET j == SetMax(js)
                          before == Slice(text, 0, j)
                          after == SliceFrom(text, j + 1)
                      IN  << SubSeq(segs, 1, i - 1) \o <<Seg(before, kind)>>,
                             <<Seg(after, kind)>> \o SubSeq(segs, i + 1, Len(segs)) >>
                 ELSE << SubSeq(segs, 1, i - 1), SubSeq(segs, i, Len(segs)) >>

\* _split_segments_at with acc + len(text) >= max_chars as the overflow test
SplitAtEqual(segs, max_chars) ==
    LET over == {i \in 1..Len(segs) :
                    AccBefore(segs, i) + Len(segs[i].text) >= max_chars}
    IN  IF over = {} THEN <<segs, <<>>>>
        ELSE LET i == SetMin(over)
                 text == segs[i].text
                 kind == segs[i].kind
                 js == BreakPoints(text, AccBefore(segs, i), max_chars)
             IN  IF js # {}
                 THEN LET j == SetMax(js)
                          before == Slice(text, 0, j + 1)
                          after == SliceFrom(text, j + 1)
                      IN  << SubSeq(segs, 1, i - 1) \o <<Seg(before, kind)>>,
                             <<Seg(after, kind)>> \o SubSeq(segs, i + 1, Len(segs)) >>
                 ELSE << SubSeq(segs, 1, i - 1), SubSeq(segs, i, Len(segs)) >>

\* <<first_part, rest>>
_split_segments_at(segs, max_chars) ==
    LET over == {i \in 1..Len(segs) :
                    AccBefore(segs, i) + Len(segs[i].text) > max_chars}
    IN  IF over = {} THEN <<segs, <<>>>>
        ELSE LET i == SetMin(over)
                 text == segs[i].text
                 kind == segs[i].kind
                 js == BreakPoints(text, AccBefore(segs, i), max_chars)
             IN  IF js # {}
                 THEN LET j == SetMax(js)
                          before == Slice(text, 0, j + 1)
                          after == SliceFrom(text, j + 1)
                      IN  << SubSeq(segs, 1, i - 1) \o <<Seg(before, kind)>>,
                             <<Seg(after, kind)>> \o SubSeq(segs, i + 1, Len(segs)) >>
                 ELSE << SubSeq(segs, 1, i - 1), SubSeq(segs, i, Len(segs)) >>

RECURSIVE RenderParts(_)
\* "".join of one \textcolor per segment with a non-empty text
RenderParts(segs) ==
    IF segs = <<>> THEN <<>>
    ELSE (IF Head(segs).text = <<>> THEN <<>>
          ELSE TextColor(_color_name(Head(segs).kind), _latex_escape(Head(segs).text)))
         \o RenderParts(Tail(segs))

\* ContPrefix without the dim backslash
ContPrefixIndentOnly(cont_indent) ==
    TextColor("vscDefault", _latex_escape(cont_indent))

\* the prefix of a continuation line: dim backslash + indent
ContPrefix(cont_indent) ==
    CONT_MARKER \o TextColor("vscDefault", _latex_escape(cont_indent))

\* the count returned with the joined lines
PhysicalCount(ls) == IF ls = <<>> THEN 1 ELSE Len(ls)

-----------------------------------------------------------------------------
(* The inputs of one logical line *)

RECURSIVE Strings(_)
\* the strings over Alphabet of length at most n
Strings(n) ==
    IF n = 0 THEN {<<>>}
    ELSE LET shorter == Strings(n - 1)
         IN  shorter \cup {Append(t, c) : t \in shorter, c \in Alphabet}

Span(srow, scol, erow, ecol, kind) ==
    [srow |-> srow, scol |-> scol, erow |-> erow, ecol |-> ecol, kind |-> kind]

\* (r1, c1) <= (r2, c2)
PosLeq(r1, c1, r2, c2) == r1 < r2 \/ (r1 = r2 /\ c1 <= c2)

\* (r1, c1) < (r2, c2)
PosLess(r1, c1, r2, c2) == r1 < r2 \/ (r1 = r2 /\ c1 < c2)

\* the spans a tokenizer can report for a two-row source: tokens of row 1, a
\* string literal that starts on row 1 and ends on row 2, a token of row 2
SpanSet ==
    {Span(1, sc, 1, ec, k) : sc \in 0..MaxCol, ec \in 0..MaxCol, k \in SpanKinds}
    \cup {Span(1, sc, 2, 1, "string") : sc \in 0..MaxCol}
    \cup {Span(2, 1, 2, 2, "keyword")}

\* the tokens tokenize_python keeps are not empty: the zero-width ones
\* (DEDENT, ENDMARKER, the NEWLINE of a last line without one) are dropped
WellFormedSpan(s) == PosLess(s.srow, s.scol, s.erow, s.ecol)

\* tokens come in source order and do not overlap
TokenOrdered(sq) ==
    /\ \A k \in 1..Len(sq) : WellFormedSpan(sq[k])
    /\ \A k \in 1..(Len(sq) - 1) :
          PosLeq(sq[k].erow, sq[k].ecol, sq[k + 1].srow, sq[k + 1].scol)

\* the spans of `set` that can follow the sequence q in source order
Following(set, q) ==
    {s \in set : /\ WellFormedSpan(s)
                 /\ q # <<>> => PosLeq(q[Len(q)].erow, q[Len(q)].ecol, s.srow, s.scol)}

RECURSIVE SpanSeqs(_, _)
\* the token-ordered sequences of at most n spans of `set`
SpanSeqs(set, n) ==
    IF n = 0 THEN {<<>>}
    ELSE LET shorter == SpanSeqs(set, n - 1)
         IN  shorter \cup
             UNION {{Append(q, s) : s \in Following(set, q)} :
                       q \in {r \in shorter : Len(r) = n - 1}}

LineSpanSeqs == SpanSeqs(SpanSet, MaxSpans)

-----------------------------------------------------------------------------
(* build_snippet and _render_line_wrapped on one logical line *)

Idle == <<>>

\* the values of the variables a specification does not use
LineIdle ==
    /\ line_text = Idle /\ line_no = 0 /\ spans = Idle /\ wrap_width = 0
    /\ segments = Idle /\ firsts = Idle /\ physical_lines = Idle
    /\ first_pass = TRUE /\ rendered = Idle /\ n_physical = 0
    /\ body_lines = Idle

EscapeIdle == esc_text = Idle /\ esc_result = Idle

AnnotateIdle ==
    /\ source_lines = Idle /\ raw_spans = Idle
    /\ annotated = Idle /\ reannotated = Idle

TokIdle ==
    /\ tok_stream = Idle /\ tok_error = "none" /\ produced = Idle
    /\ tokens = Idle /\ tok_i = 0 /\ results = Idle

BatchIdle ==
    /\ script = "" /\ files = Idle /\ file_i = 0 /\ outcomes = Idle
    /\ out_before = Idle /\ out_path = Idle

LineInit ==
    /\ pc = "start"
    /\ line_text \in Strings(MaxLineLen)
    /\ line_no = 1
    /\ spans \in LineSpanSeqs
    /\ wrap_width \in 1..MaxWidth
    /\ segments = <<>>
    /\ firsts = <<>>
    /\ physical_lines = <<>>
    /\ first_pass = TRUE
    /\ rendered = <<>>
    /\ n_physical = 0
    /\ body_lines = <<>>
    /\ EscapeIdle /\ AnnotateIdle /\ TokIdle /\ BatchIdle

\* build_snippet, lines 399-404: a blank line is one strut paragraph
BlankLine ==
    /\ pc = "start"
    /\ IsBlank(line_text)
    /\ body_lines' = <<[number |-> line_no, placeholder |-> FALSE,
                        code |-> <<"\\strut">>]>>
    /\ pc' = "emitted"
    /\ UNCHANGED <<lineVars, segments, firsts, physical_lines, first_pass,
                   rendered, n_physical>>
    /\ UNCHANGED <<escapeVars, annotateVars, tokVars, batchVars>>

\* _render_line_wrapped, lines 343-346
Colourise ==
    /\ pc = "start"
    /\ segments' = _colourise_line(RstripNewline(line_text), line_no, spans)
    /\ physical_lines' = <<>>
    /\ first_pass' = TRUE
    /\ pc' = "wrap"
    /\ UNCHANGED <<lineVars, firsts, rendered, n_physical, body_lines>>
    /\ UNCHANGED <<escapeVars, annotateVars, tokVars, batchVars>>

\* one pass of the while loop, lines 347-366
WrapStep ==
    /\ pc = "wrap"
    /\ segments # <<>>
    /\ Len(physical_lines) < MaxPhysical
    /\ LET sp == _split_segments_at(segments, wrap_width)
           parts == RenderParts(sp[1])
           line == IF first_pass THEN parts ELSE ContPrefix(CONT_INDENT) \o parts
       IN  /\ segments' = sp[2]
           /\ firsts' = Append(firsts, sp[1])
           /\ physical_lines' = Append(physical_lines, line)
    /\ first_pass' = FALSE
    /\ UNCHANGED <<pc, lineVars, rendered, n_physical, body_lines>>
    /\ UNCHANGED <<escapeVars, annotateVars, tokVars, batchVars>>

\* lines 368-371
WrapReturn ==
    /\ pc = "wrap"
    /\ segments = <<>>
    /\ rendered' = JoinLines(physical_lines)
    /\ n_physical' = PhysicalCount(physical_lines)
    /\ pc' = "returned"
    /\ UNCHANGED <<lineVars, segments, firsts, physical_lines, first_pass, body_lines>>
    /\ UNCHANGED <<escapeVars, annotateVars, tokVars, batchVars>>

\* physical[2:]: the first continuation line is skipped
ContinuationLinesFromThird(physical) == SubSeq(physical, 3, Len(physical))

\* physical[1:]
ContinuationLines(physical) == Tail(physical)

\* build_snippet, lines 406-419: one paragraph per physical line
EmitLines ==
    /\ pc = "returned"
    /\ ~IsBlank(line_text)
    /\ LET physical == SplitLines(rendered)
           conts == ContinuationLines(physical)
       IN  body_lines' =
               <<[number |-> line_no, placeholder |-> FALSE, code |-> physical[1]]>>
               \o [k \in 1..Len(conts) |->
                     [number |-> 0, placeholder |-> TRUE, code |-> conts[k]]]
    /\ pc' = "emitted"
    /\ UNCHANGED <<lineVars, segments, firsts, physical_lines, first_pass,
                   rendered, n_physical>>
    /\ UNCHANGED <<escapeVars, annotateVars, tokVars, batchVars>>

LineNext == BlankLine \/ Colourise \/ WrapStep \/ WrapReturn \/ EmitLines

Spec == LineInit /\ [][LineNext]_vars

-----------------------------------------------------------------------------
(* Properties of the line pipeline (specification Spec) *)

RECURSIVE Flatten(_)
Flatten(lists) ==
    IF lists = <<>> THEN <<>> ELSE Head(lists) \o Flatten(Tail(lists))

Elems(sq) == {sq[k] : k \in 1..Len(sq)}

\* the segment list S the wrap loop starts from
S0 == _colourise_line(RstripNewline(line_text), line_no, spans)

HasPrefix(text, prefix) ==
    Len(text) >= Len(prefix) /\ SubSeq(text, 1, Len(prefix)) = prefix

\* C1: the wrap loop terminates.  A pass is a function of (segments,
\* wrap_width) alone, so the loop ends only if every pass changes the
\* segments that remain: a pass that leaves them as they were repeats forever.
C1_WrapTerminates ==
    [][(pc = "wrap" /\ segments # <<>>) => segments' # segments]_vars

\* C2: at every step of the wrap loop the texts placed so far followed by the
\* texts still to be placed are the text of S, and the split the next pass
\* makes returns (first, rest) whose texts are the text of its argument.
C2_WrapConservation ==
    pc \in {"wrap", "returned"} =>
        /\ SegText(Flatten(firsts)) \o SegText(segments) = SegText(S0)
        /\ LET sp == _split_segments_at(segments, wrap_width)
           IN  SegText(sp[1]) \o SegText(sp[2]) = SegText(segments)

\* a segment was split at a break character and both parts were placed
C2_Witness ==
    /\ pc = "returned"
    /\ Len(Flatten(firsts)) > Len(S0)
    /\ Len(firsts) >= 2
    /\ SegText(Flatten(firsts)) # <<>>

\* C3: the texts of the segments _colourise_line returns are the line, in
\* order, and each segment is a span's slice with that span's category or a
\* 'default' filler.
C3_Coverage ==
    (pc = "wrap" /\ firsts = <<>>) =>
        /\ SegText(segments) = RstripNewline(line_text)
        /\ \A k \in 1..Len(segments) :
              \/ segments[k].kind = "default"
              \/ \E m \in 1..Len(spans) :
                    /\ spans[m].srow = line_no /\ spans[m].erow = line_no
                    /\ segments[k] = Seg(Slice(line_text, spans[m].scol, spans[m].ecol),
                                         spans[m].kind)

\* a gap before a span, a span, and uncovered text after it
C3_Witness ==
    /\ pc = "wrap" /\ firsts = <<>>
    /\ Len(segments) = 3
    /\ segments[1].kind = "default" /\ segments[1].text # <<>>
    /\ segments[2].kind = "keyword" /\ segments[2].text # <<>>
    /\ segments[3].kind = "default" /\ segments[3].text # <<>>

\* C4: the count _render_line_wrapped returns is the number of physical lines
\* of the string it returns, and build_snippet emits one paragraph per
\* physical line, in order: the line number on the first, the placeholder on
\* each continuation.
C4_LineCountAlignment ==
    /\ (pc = "returned" \/ (pc = "emitted" /\ ~IsBlank(line_text))) =>
          /\ n_physical = Len(SplitLines(rendered))
          /\ physical_lines # <<>> => n_physical = Len(physical_lines)
    /\ pc = "emitted" =>
          /\ Len(body_lines) >= 1
          /\ body_lines[1].placeholder = FALSE /\ body_lines[1].number = line_no
          /\ \A k \in 2..Len(body_lines) : body_lines[k].placeholder = TRUE
    /\ (pc = "emitted" /\ ~IsBlank(line_text)) =>
          /\ Len(body_lines) = n_physical
          /\ \A k \in 1..Len(body_lines) : body_lines[k].code = physical_lines[k]

\* a logical line that wrapped into three physical lines was emitted
C4_Witness ==
    pc = "emitted" /\ n_physical >= 3 /\ Len(body_lines) >= 3

\* C7: a category that is no key of COLORS is reported before any output is
\* produced: while a segment carries one, nothing has been rendered.
C7_UnmappedCategoryFatal ==
    (\E seg \in Elems(segments) \cup Elems(Flatten(firsts)) : seg.kind \notin COLORS)
        => (physical_lines = <<>> /\ rendered = <<>> /\ body_lines = <<>>)

\* C10: a segment list no longer than the wrap width gives one physical line,
\* count 1, without continuation marker or indent.
C10_NoWrap ==
    Len(SegText(S0)) <= wrap_width =>
        /\ pc \in {"wrap", "returned"} => Len(physical_lines) <= 1
        /\ pc = "returned" =>
              /\ n_physical = 1
              /\ Len(SplitLines(rendered)) = 1
              /\ rendered = RenderParts(S0)
              /\ ~HasPrefix(rendered, CONT_MARKER)
              /\ "vscLineno" \notin Elems(rendered)

\* two or more segments that fill the width exactly
C10_Witness ==
    /\ pc = "returned"
    /\ Len(S0) >= 2
    /\ Len(SegText(S0)) = wrap_width
    /\ Len(physical_lines) = 1

\* C11: a logical line, blank or not, gives at least one physical line; the
\* first carries the line number and no continuation marker, each later one
\* the placeholder and the marker followed by the indent.  A blank line gives
\* exactly one, a strut.  The same shape holds of the lines of the wrap loop.
C11_PhysicalLineShape ==
    /\ pc = "emitted" =>
          /\ Len(body_lines) >= 1
          /\ body_lines[1].number = line_no
          /\ ~body_lines[1].placeholder
          /\ ~HasPrefix(body_lines[1].code, CONT_MARKER)
          /\ \A k \in 2..Len(body_lines) :
                /\ body_lines[k].placeholder
                /\ HasPrefix(body_lines[k].code,
                             CONT_MARKER
                             \o TextColor("vscDefault", _latex_escape(CONT_INDENT)))
          /\ IsBlank(line_text) => body_lines = <<[number |-> line_no,
                                                   placeholder |-> FALSE,
                                                   code |-> <<"\\strut">>]>>
    /\ \A k \in 1..Len(physical_lines) :
          HasPrefix(physical_lines[k], CONT_MARKER) <=> k >= 2

\* a line that was wrapped: a numbered line that holds code and a
\* continuation line that holds code after its prefix
C11_Witness ==
    /\ pc = "emitted"
    /\ Len(body_lines) = 2
    /\ body_lines[1].code # <<>>
    /\ Len(body_lines[2].code) > Len(ContPrefix(CONT_INDENT))

\* C14: the first part a split returns is at most max_chars characters long,
\* so a break character kept at its end lies within the width budget: of the
\* split the next pass makes, and of every split made so far.
C14_WidthBudget ==
    /\ (pc = "wrap" /\ segments # <<>>) =>
          Len(SegText(_split_segments_at(segments, wrap_width)[1])) <= wrap_width
    /\ \A k \in 1..Len(firsts) : Len(SegText(firsts[k])) <= wrap_width

\* C16: every continuation line _render_line_wrapped returns holds source
\* text after its marker and indent: none is the continuation prefix alone.
C16_NoEmptyContinuation ==
    pc = "returned" =>
        \A k \in 2..Len(physical_lines) :
            Len(physical_lines[k]) > Len(ContPrefix(CONT_INDENT))

-----------------------------------------------------------------------------
(* _latex_escape on its own (specification SpecEscape) *)

MaxEscLen == 3

\* specials whose replacement holds other specials, plain ones, a letter
EscAlphabet == {"\\", "{", "}", "^", "_", " ", "a"}

RECURSIVE EscStrings(_)
EscStrings(n) ==
    IF n = 0 THEN {<<>>}
    ELSE LET shorter == EscStrings(n - 1)
         IN  shorter \cup {Append(t, c) : t \in shorter, c \in EscAlphabet}

EscapeInit ==
    /\ pc = "escape"
    /\ esc_text \in EscStrings(MaxEscLen)
    /\ esc_result = <<>>
    /\ LineIdle /\ AnnotateIdle /\ TokIdle /\ BatchIdle

\* lines 169-185
Escape ==
    /\ pc = "escape"
    /\ esc_result' = _latex_escape(esc_text)
    /\ pc' = "escaped"
    /\ UNCHANGED <<esc_text, lineVars, wrapVars, annotateVars, tokVars, batchVars>>

EscapeNext == Escape

SpecEscape == EscapeInit /\ [][EscapeNext]_vars

\* the replacement the table of _latex_escape gives one character
ReplacementOf(ch) ==
    LET rows == {k \in 1..Len(EscapeTable) : EscapeTable[k][1] = ch}
    IN  IF rows = {} THEN <<ch>> ELSE EscapeTable[SetMin(rows)][2]

RECURSIVE PerCharEscape(_)
\* each character's own replacement, in order
PerCharEscape(t) ==
    IF t = <<>> THEN <<>> ELSE ReplacementOf(Head(t)) \o PerCharEscape(Tail(t))

RECURSIVE Unescape(_)
\* the inverse of the table: a replacement string reads as its character
Unescape(t) ==
    IF t = <<>> THEN <<>>
    ELSE LET rows == {k \in 1..Len(EscapeTable) : HasPrefix(t, EscapeTable[k][2])}
         IN  IF rows = {} THEN <<Head(t)>> \o Unescape(Tail(t))
             ELSE LET k == SetMin(rows)
                  IN  <<EscapeTable[k][1]>>
                      \o Unescape(SubSeq(t, Len(EscapeTable[k][2]) + 1, Len(t)))

\* C5: the escaped text is each character's own replacement in order, and
\* reading it back through the inverse of the table gives the raw text.
C5_EscapeRoundTrip ==
    pc = "escaped" =>
        /\ esc_result = PerCharEscape(esc_text)
        /\ Unescape(esc_result) = esc_text

-----------------------------------------------------------------------------
(* _annotate_function_names (specification SpecAnnotate) *)

MaxAnnSpans == 3

\* ("def", "class")
DefinitionKeywords == {<<"d", "e", "f">>, <<"c", "l", "a", "s", "s">>}

\* the source-line lists: def f / class, def
AnnSources ==
    { << <<"d", "e", "f", " ", "f">> >>,
      << <<"c", "l", "a", "s", "s">>, <<"d", "e", "f">> >> }

\* the columns where a token of these lines starts or ends
AnnCols == {0, 3, 4, 5}

\* categories of tokenize_python: the one the rule reads, the one it
\* upgrades, one it leaves alone
AnnKinds == {"keyword", "default", "operator"}

\* one-row spans of rows 1..2: row 2 is past the end of a one-line source
AnnSpanSet ==
    {Span(r, sc, r, ec, k) : r \in 1..2, sc \in AnnCols, ec \in AnnCols,
                             k \in AnnKinds}

RECURSIVE AnnotateDuplicating(_, _, _, _)
\* AnnotateFrom that appends the span as it came and then the upgraded one
AnnotateDuplicating(lines, sq, prev_kind, prev_str) ==
    IF sq = <<>> THEN <<>>
    ELSE LET span == Head(sq)
             token_str == IF span.srow <= Len(lines)
                          THEN Slice(lines[span.srow], span.scol, span.ecol)
                          ELSE <<>>
             fires == /\ prev_kind = "keyword"
                      /\ prev_str \in DefinitionKeywords
                      /\ span.kind = "default"
             kind == IF fires THEN "function" ELSE span.kind
         IN  (IF fires THEN <<span>> ELSE <<>>)
             \o <<[span EXCEPT !.kind = kind]>>
             \o AnnotateDuplicating(lines, Tail(sq), kind, token_str)

RECURSIVE AnnotateAfterAnyKeyword(_, _, _, _)
\* AnnotateFrom without the test of the keyword's text
AnnotateAfterAnyKeyword(lines, sq, prev_kind, prev_str) ==
    IF sq = <<>> THEN <<>>
    ELSE LET span == Head(sq)
             token_str == IF span.srow <= Len(lines)
                          THEN Slice(lines[span.srow], span.scol, span.ecol)
                          ELSE <<>>
             fires == /\ prev_kind = "keyword"
                      /\ span.kind = "default"
             kind == IF fires THEN "function" ELSE span.kind
         IN  <<[span EXCEPT !.kind = kind]>>
             \o AnnotateAfterAnyKeyword(lines, Tail(sq), kind, token_str)

RECURSIVE AnnotateFrom(_, _, _, _)
\* the loop of lines 123-130 over the spans left, with prev_kind and prev_str
AnnotateFrom(lines, sq, prev_kind, prev_str) ==
    IF sq = <<>> THEN <<>>
    ELSE LET span == Head(sq)
             token_str == IF span.srow <= Len(lines)
                          THEN Slice(lines[span.srow], span.scol, span.ecol)
                          ELSE <<>>
             fires == /\ prev_kind = "keyword"
                      /\ prev_str \in DefinitionKeywords
                      /\ span.kind = "default"
             kind == IF fires THEN "function" ELSE span.kind
         IN  <<[span EXCEPT !.kind = kind]>>
             \o AnnotateFrom(lines, Tail(sq), kind, token_str)

_annotate_function_names(lines, sq) == AnnotateFrom(lines, sq, "", <<>>)

AnnotateInit ==
    /\ pc = "annotate"
    /\ source_lines \in AnnSources
    /\ raw_spans \in SpanSeqs(AnnSpanSet, MaxAnnSpans)
    /\ annotated = <<>>
    /\ reannotated = <<>>
    /\ LineIdle /\ EscapeIdle /\ TokIdle /\ BatchIdle

\* build_snippet, line 391
Annotate ==
    /\ pc = "annotate"
    /\ annotated' = _annotate_function_names(source_lines, raw_spans)
    /\ pc' = "annotated"
    /\ UNCHANGED <<source_lines, raw_spans, reannotated, lineVars, wrapVars,
                   escapeVars, tokVars, batchVars>>

\* the reclassifier run on its own output
Reannotate ==
    /\ pc = "annotated"
    /\ reannotated' = _annotate_function_names(source_lines, annotated)
    /\ pc' = "reannotated"
    /\ UNCHANGED <<source_lines, raw_spans, annotated, lineVars, wrapVars,
                   escapeVars, tokVars, batchVars>>

AnnotateNext == Annotate \/ Reannotate

SpecAnnotate == AnnotateInit /\ [][AnnotateNext]_vars

\* C9: the reclassifier applied to its own output returns it unchanged.
C9_Idempotent ==
    pc = "reannotated" => reannotated = annotated

\* the first pass upgraded a span after def/class and left a later 'default'
\* span alone
C9_Witness ==
    /\ pc = "reannotated"
    /\ \E k \in 1..Len(raw_spans) :
          /\ raw_spans[k].kind = "default" /\ annotated[k].kind = "function"
          /\ k < Len(raw_spans)
          /\ raw_spans[k + 1].kind = "default" /\ reannotated[k + 1].kind = "default"

\* the text of a span as line 125 reads it: the slice of its start row
SpanText(lines, span) ==
    IF span.srow <= Len(lines)
    THEN Slice(lines[span.srow], span.scol, span.ecol)
    ELSE <<>>

\* the span at k follows a 'keyword' span whose text is def or class
FollowsDefinitionKeyword(lines, sq, k) ==
    /\ k > 1
    /\ sq[k - 1].kind = "keyword"
    /\ SpanText(lines, sq[k - 1]) \in DefinitionKeywords

\* C15: the reclassifier returns as many spans as it was given, in the same
\* order and at the same positions; a span's category is changed exactly when
\* the span is 'default' and the span before it is a 'keyword' reading def or
\* class; the changed span is 'function', and the span after a changed one
\* is not changed.
C15_ReclassificationRule ==
    pc \in {"annotated", "reannotated"} =>
        /\ Len(annotated) = Len(raw_spans)
        /\ \A k \in 1..Len(raw_spans) :
              /\ [annotated[k] EXCEPT !.kind = raw_spans[k].kind] = raw_spans[k]
              /\ annotated[k].kind # raw_spans[k].kind
                    <=> /\ raw_spans[k].kind = "default"
                        /\ FollowsDefinitionKeyword(source_lines, raw_spans, k)
              /\ annotated[k].kind # raw_spans[k].kind
                    => /\ annotated[k].kind = "function"
                       /\ k < Len(raw_spans)
                             => annotated[k + 1].kind = raw_spans[k + 1].kind

\* a keyword reading def or class ends one row, the 'default' span that opens
\* the next row was upgraded, and the 'default' span after that one was not
C15_Witness ==
    /\ pc = "annotated"
    /\ Len(raw_spans) = 3
    /\ raw_spans[1].kind = "keyword"
    /\ SpanText(source_lines, raw_spans[1]) \in DefinitionKeywords
    /\ raw_spans[2].kind = "default" /\ annotated[2].kind = "function"
    /\ raw_spans[3].kind = "default" /\ annotated[3].kind = "default"
    /\ raw_spans[2].srow > raw_spans[1].srow

-----------------------------------------------------------------------------
(* tokenize_python (specification SpecTokenize) *)

MaxTokens == 3

PYTHON_KEYWORDS ==
    {"False", "None", "True", "and", "as", "assert", "async", "await",
     "break", "class", "continue", "def", "del", "elif", "else", "except",
     "finally", "for", "from", "global", "if", "import", "in", "is",
     "lambda", "nonlocal", "not", "or", "pass", "raise", "return", "try",
     "while", "with", "yield"}

BUILTIN_TYPES ==
    {"int", "float", "str", "bool", "list", "dict", "set", "tuple",
     "bytes", "bytearray", "complex", "type", "object",
     "Exception", "ValueError", "TypeError", "KeyError", "IndexError",
     "AttributeError", "RuntimeError", "StopIteration", "OSError",
     "IOError", "FileNotFoundError", "NotImplementedError"}

\* the operator lexemes that are substrings of "()[]{}"
Brackets == {"(", ")", "[", "]", "{", "}"}

Lexeme(type, string, width) == [type |-> type, string |-> string, width |-> width]

\* the lexemes of the token streams: one per branch of the classifier
Lexemes ==
    { Lexeme("COMMENT", "#c", 2), Lexeme("STRING", "'s'", 3),
      Lexeme("NUMBER", "1", 1), Lexeme("NAME", "def", 3),
      Lexeme("NAME", "int", 3), Lexeme("NAME", "x", 1),
      Lexeme("OP", "(", 1), Lexeme("OP", "=", 1),
      Lexeme("NEWLINE", "\n", 1), Lexeme("ERRORTOKEN", "$", 1) }

RECURSIVE Layout(_, _, _)
\* tok.start and tok.end of the lexemes, laid out one blank apart from
\* (row, col); a NEWLINE ends the row
Layout(lexemes, row, col) ==
    IF lexemes = <<>> THEN <<>>
    ELSE LET x == Head(lexemes)
             tok == [type |-> x.type, string |-> x.string,
                     srow |-> row, scol |-> col,
                     erow |-> row, ecol |-> col + x.width]
         IN  <<tok>> \o
             (IF x.type = "NEWLINE"
              THEN Layout(Tail(lexemes), row + 1, 0)
              ELSE Layout(Tail(lexemes), row, col + x.width + 1))

RECURSIVE LexemeSeqs(_)
LexemeSeqs(n) ==
    IF n = 0 THEN {<<>>}
    ELSE LET shorter == LexemeSeqs(n - 1)
         IN  shorter \cup {Append(q, x) : q \in shorter, x \in Lexemes}

\* lines 89-108: the colour key of a token, "" for the tokens not kept
KindOf(tok) ==
    CASE tok.type = "COMMENT" -> "comment"
      [] tok.type = "STRING" -> "string"
      [] tok.type = "NUMBER" -> "number"
      [] tok.type = "NAME" ->
            IF tok.string \in PYTHON_KEYWORDS THEN "keyword"
            ELSE IF tok.string \in BUILTIN_TYPES THEN "type"
            ELSE "default"
      [] tok.type = "OP" ->
            IF tok.string \in Brackets THEN "bracket" ELSE "operator"
      [] tok.type \in {"NEWLINE", "NL", "INDENT", "DEDENT", "ENDMARKER"} -> ""
      [] OTHER -> "default"

RECURSIVE SpansOf(_)
\* the spans of a token list
SpansOf(toks) ==
    IF toks = <<>> THEN <<>>
    ELSE (IF KindOf(Head(toks)) = "" THEN <<>>
          ELSE LET t == Head(toks)
               IN  <<Span(t.srow, t.scol, t.erow, t.ecol, KindOf(t))>>)
         \o SpansOf(Tail(toks))

\* generate_tokens raises TokenError (EOF in a multi-line statement or string)
\* or IndentationError (a dedent that matches no outer level, so on a later
\* row than the first)
TokenizerErrors == {"TokenError", "IndentationError"}

CanFailWith(stream, error) ==
    error = "IndentationError" =>
        \E k \in 1..Len(stream) : stream[k].type = "NEWLINE"

TokenizeInit ==
    /\ pc = "tokenize"
    /\ tok_stream \in {Layout(q, 1, 0) : q \in LexemeSeqs(MaxTokens)}
    /\ tok_error \in {"none"} \cup TokenizerErrors
    /\ CanFailWith(tok_stream, tok_error)
    /\ produced = <<>>
    /\ tokens = <<>>
    /\ tok_i = 0
    /\ results = <<>>
    /\ LineIdle /\ EscapeIdle /\ AnnotateIdle /\ BatchIdle

\* line 79: list() draws the next token from the generator
Generate ==
    /\ pc = "tokenize"
    /\ Len(produced) < Len(tok_stream)
    /\ produced' = Append(produced, tok_stream[Len(produced) + 1])
    /\ UNCHANGED <<pc, tok_stream, tok_error, tokens, tok_i, results>>
    /\ UNCHANGED <<lineVars, wrapVars, escapeVars, annotateVars, batchVars>>

\* line 79 completes: tokens is bound, the for loop starts
GenerateEnds ==
    /\ pc = "tokenize"
    /\ Len(produced) = Len(tok_stream)
    /\ tok_error = "none"
    /\ tokens' = produced
    /\ tok_i' = 1
    /\ pc' = "classify"
    /\ UNCHANGED <<tok_stream, tok_error, produced, results>>
    /\ UNCHANGED <<lineVars, wrapVars, escapeVars, annotateVars, batchVars>>

\* lines 80-81: the generator raises; TokenError returns results as it is,
\* anything else leaves tokenize_python as an exception
GenerateFails ==
    /\ pc = "tokenize"
    /\ Len(produced) = Len(tok_stream)
    /\ tok_error # "none"
    /\ pc' = IF tok_error = "TokenError" THEN "tokenized" ELSE "raised"
    /\ UNCHANGED <<tok_stream, tok_error, produced, tokens, tok_i, results>>
    /\ UNCHANGED <<lineVars, wrapVars, escapeVars, annotateVars, batchVars>>

\* one pass of the for loop, lines 83-110
ClassifyToken ==
    /\ pc = "classify"
    /\ tok_i <= Len(tokens)
    /\ LET tok == tokens[tok_i]
           kind == KindOf(tok)
       IN  results' = IF kind = "" THEN results
                      ELSE Append(results,
                                  Span(tok.srow, tok.scol, tok.erow, tok.ecol, kind))
    /\ tok_i' = tok_i + 1
    /\ UNCHANGED <<pc, tok_stream, tok_error, produced, tokens>>
    /\ UNCHANGED <<lineVars, wrapVars, escapeVars, annotateVars, batchVars>>

\* line 112
TokenizeReturn ==
    /\ pc = "classify"
    /\ tok_i > Len(tokens)
    /\ pc' = "tokenized"
    /\ UNCHANGED <<tokVars, lineVars, wrapVars, escapeVars, annotateVars, batchVars>>

TokenizeNext ==
    Generate \/ GenerateEnds \/ GenerateFails \/ ClassifyToken \/ TokenizeReturn

SpecTokenize == TokenizeInit /\ [][TokenizeNext]_vars

\* C6: when the tokenizer fails part-way, tokenize_python returns the spans
\* of the tokens produced before the failure, and raises nothing.
C6_FailSoft ==
    (pc \in {"tokenized", "raised"} /\ tok_error # "none") =>
        (pc = "tokenized" /\ results = SpansOf(tok_stream))

\* tok.string as characters; the NEWLINE is no character of its line
LexemeText(string) ==
    CASE string = "#c" -> <<"#", "c">>
      [] string = "'s'" -> <<"'", "s", "'">>
      [] string = "1" -> <<"1">>
      [] string = "def" -> <<"d", "e", "f">>
      [] string = "int" -> <<"i", "n", "t">>
      [] string = "x" -> <<"x">>
      [] string = "(" -> <<"(">>
      [] string = "=" -> <<"=">>
      [] string = "\n" -> <<>>
      [] string = "$" -> <<"$">>

\* t with blanks added up to column n
Pad(t, n) == t \o [k \in 1..(n - Len(t)) |-> " "]

RECURSIVE RowText(_, _, _)
\* the source line of a row: its tokens at their columns, blanks between
RowText(toks, row, acc) ==
    IF toks = <<>> THEN acc
    ELSE LET t == Head(toks)
         IN  IF t.srow # row THEN RowText(Tail(toks), row, acc)
             ELSE RowText(Tail(toks), row, Pad(acc, t.scol) \o LexemeText(t.string))

\* source.splitlines() of the source the token stream was read from
SourceLines(toks) ==
    [r \in 1..(IF toks = <<>> THEN 0 ELSE toks[Len(toks)].srow) |->
        RowText(toks, r, <<>>)]

\* build_snippet, lines 390-406: the segments of each line of the source,
\* from the tokenizer's spans through the reclassifier and the colouriser
SnippetSegments(toks, sq) ==
    LET lines == SourceLines(toks)
        annotated_spans == _annotate_function_names(lines, sq)
    IN  [r \in 1..Len(lines) |-> _colourise_line(lines[r], r, annotated_spans)]

\* the color names a rendered text refers to
ColorNamesIn(out) ==
    {out[k + 1] : k \in {i \in 1..(Len(out) - 1) : out[i] = "\\textcolor{"}}

\* the names _define_colors_block(colors) defines
_define_colors_block(colors) == {_color_name(key) : key \in colors}

\* the color names written out in the preamble, the frame and the line
\* numbers
FixedColorNames ==
    {"vscFrameOuter", "vscBackground", "vscDefault", "vscLineno",
     "vscBtnRed", "vscBtnYellow", "vscBtnGreen"}

\* C13: every category the pipeline assigns is a key of COLORS, and every
\* color name the output refers to is one _define_colors_block(COLORS)
\* defines: the tokenizer's categories, the reclassifier's 'function', the
\* colouriser's 'default' filler, the names of the continuation prefix and
\* the names the preamble, the frame and the line numbers spell out.
C13_StyleTableComplete ==
    /\ FixedColorNames \subseteq _define_colors_block(COLORS)
    /\ ColorNamesIn(ContPrefix(CONT_INDENT)) \subseteq _define_colors_block(COLORS)
    /\ \A k \in 1..Len(results) : results[k].kind \in COLORS
    /\ pc = "tokenized" =>
          LET segs == SnippetSegments(tok_stream, results)
          IN  \A r \in 1..Len(segs) :
                  /\ \A k \in 1..Len(segs[r]) : segs[r][k].kind \in COLORS
                  /\ ColorNamesIn(RenderParts(segs[r]))
                        \subseteq _define_colors_block(COLORS)

\* def x ( was tokenized: a keyword, the blank filler, the name upgraded to
\* 'function', a bracket
C13_Witness ==
    /\ pc = "tokenized"
    /\ tok_error = "none"
    /\ Len(results) = 3
    /\ LET segs == SnippetSegments(tok_stream, results)
       IN  /\ Len(segs) = 1
           /\ {"keyword", "default", "function", "bracket"}
                 \subseteq {segs[1][k].kind : k \in 1..Len(segs[1])}

-----------------------------------------------------------------------------
(* The batch loops of the two main() (specification SpecBatch) *)

MaxFiles == 3

\* the condition a file of the batch is in
FileConditions ==
    {"ok", "missing", "unreadable", "token_error", "indentation_error",
     "write_error"}

RECURSIVE FileLists(_)
FileLists(n) ==
    IF n = 0 THEN {<<>>}
    ELSE LET shorter == FileLists(n - 1)
         IN  shorter \cup {Append(q, c) : q \in shorter, c \in FileConditions}

\* export_file / export_to_svg leave by an exception on this file
ExportRaises(which, cond) ==
    IF which = "export_tikz"
    THEN cond \in {"unreadable", "indentation_error", "write_error"}
    ELSE cond \in {"missing", "unreadable", "write_error"}

\* what an output path holds: no file, or a file with the chunks written to it
Absent == [exists |-> FALSE, data |-> <<>>]

File(data) == [exists |-> TRUE, data |-> data]

\* the text to write (the snippet, the downloaded SVG), by the chunks the
\* buffered writer hands to the operating system
Document == <<"first chunk", "last chunk">>

\* the output of an earlier run
OldDocument == <<"earlier output">>

\* Path.write_text and shutil.copy2 open the path for writing, which empties
\* it, and then write chunk by chunk.  A failure of the open (or of mkdir)
\* leaves the path as it was; a failure after it leaves the chunks written.
WriteFailures(before) ==
    {before} \cup {File(SubSeq(Document, 1, k)) : k \in 0..(Len(Document) - 1)}

BatchInit ==
    /\ pc = "main"
    /\ script \in {"export_tikz", "export_script"}
    /\ files \in FileLists(MaxFiles)
    /\ file_i = 1
    /\ outcomes = <<>>
    /\ out_before \in [1..Len(files) -> {Absent, File(OldDocument)}]
    /\ out_path = out_before
    /\ LineIdle /\ EscapeIdle /\ AnnotateIdle /\ TokIdle

\* export_tikz 468-470, export_script 233-235: nothing to do
NoFiles ==
    /\ pc = "main"
    /\ files = <<>>
    /\ pc' = "exit_1"
    /\ UNCHANGED <<batchVars, lineVars, wrapVars, escapeVars, annotateVars, tokVars>>

\* export_tikz 476-478: a missing file is reported and skipped
TikzFileNotFound ==
    /\ pc = "main"
    /\ script = "export_tikz"
    /\ file_i <= Len(files)
    /\ files[file_i] = "missing"
    /\ outcomes' = Append(outcomes, "File not found")
    /\ file_i' = file_i + 1
    /\ UNCHANGED <<pc, script, files, out_before, out_path, lineVars, wrapVars, escapeVars, annotateVars,
                   tokVars>>

\* export_tikz 479-480: export_file returns
TikzExported ==
    /\ pc = "main"
    /\ script = "export_tikz"
    /\ file_i <= Len(files)
    /\ files[file_i] # "missing"
    /\ ~ExportRaises(script, files[file_i])
    /\ out_path' = [out_path EXCEPT ![file_i] = File(Document)]
    /\ outcomes' = Append(outcomes, "Written")
    /\ file_i' = file_i + 1
    /\ UNCHANGED <<pc, script, files, out_before, lineVars, wrapVars, escapeVars, annotateVars,
                   tokVars>>

\* export_tikz 480: export_file raises; nothing in main catches it
TikzExportRaises ==
    /\ pc = "main"
    /\ script = "export_tikz"
    /\ file_i <= Len(files)
    /\ ExportRaises(script, files[file_i])
    /\ IF files[file_i] = "write_error"
       THEN \E left \in WriteFailures(out_path[file_i]) :
               out_path' = [out_path EXCEPT ![file_i] = left]
       ELSE UNCHANGED out_path
    /\ outcomes' = Append(outcomes, "Traceback")
    /\ pc' = "aborted"
    /\ UNCHANGED <<script, files, file_i, out_before, lineVars, wrapVars, escapeVars,
                   annotateVars, tokVars>>

\* export_script 241-243
SvgExported ==
    /\ pc = "main"
    /\ script = "export_script"
    /\ file_i <= Len(files)
    /\ ~ExportRaises(script, files[file_i])
    /\ out_path' = [out_path EXCEPT ![file_i] = File(Document)]
    /\ outcomes' = Append(outcomes, "Done")
    /\ file_i' = file_i + 1
    /\ UNCHANGED <<pc, script, files, out_before, lineVars, wrapVars, escapeVars, annotateVars,
                   tokVars>>

\* export_script 244-246: the error is printed and raised again
SvgExportRaises ==
    /\ pc = "main"
    /\ script = "export_script"
    /\ file_i <= Len(files)
    /\ ExportRaises(script, files[file_i])
    /\ IF files[file_i] = "write_error"
       THEN \E left \in WriteFailures(out_path[file_i]) :
               out_path' = [out_path EXCEPT ![file_i] = left]
       ELSE UNCHANGED out_path
    /\ outcomes' = Append(outcomes, "ERROR")
    /\ pc' = "aborted"
    /\ UNCHANGED <<script, files, file_i, out_before, lineVars, wrapVars, escapeVars,
                   annotateVars, tokVars>>

\* the for loop is over: export_tikz 482, export_script 246
BatchDone ==
    /\ pc = "main"
    /\ files # <<>>
    /\ file_i > Len(files)
    /\ pc' = "done"
    /\ UNCHANGED <<batchVars, lineVars, wrapVars, escapeVars, annotateVars, tokVars>>

BatchNext ==
    \/ NoFiles \/ TikzFileNotFound \/ TikzExported \/ TikzExportRaises
    \/ SvgExported \/ SvgExportRaises \/ BatchDone

SpecBatch == BatchInit /\ [][BatchNext]_vars

\* C8: a file that fails does not keep the later files from being processed:
\* when main() is over, by its end or by an exception, every file of the
\* batch has had its outcome reported.
C8_BatchIsolation ==
    pc \in {"done", "aborted"} => Len(outcomes) = Len(files)

\* C12: the write of an output file is all or nothing: whatever main() did,
\* each output path holds the complete document or what it held before.
C12_AllOrNothingWrite ==
    \A k \in 1..Len(out_path) :
        out_path[k] = File(Document) \/ out_path[k] = out_before[k]

=============================================================================
